---- MODULE Spec2Model ----
(***************************************************************************)
(* Model of app.py, the Streamlit PDF question-answering script.           *)
(*                                                                         *)
(* The script is re-executed from top to bottom on every user interaction  *)
(* (a "rerun").  st.session_state survives reruns; script globals do not.  *)
(* One rerun is modelled as the walk  idle -> upload loop (one step per    *)
(* uploaded file) -> question flow -> summary panel and configuration tab  *)
(* -> idle.  An uncaught exception ends the rerun where it is raised.      *)
(* A script global is kept only as long as the script can still read it:   *)
(* each step leaves the globals it assigned, the next step that does not   *)
(* read them forgets them.                                                 *)
(*                                                                         *)
(* Python dicts are insertion ordered; a dict is modelled as a sequence of *)
(* <<key, value>> pairs with pairwise distinct keys.                       *)
(*                                                                         *)
(* Text is a sequence of characters.  The tokenizer is modelled on a       *)
(* three character alphabet that keeps the property of tiktoken that       *)
(* matters to chunking: tokens are byte level, so one character can span   *)
(* two tokens, and decoding half of such a character yields U+FFFD.        *)
(***************************************************************************)
EXTENDS Integers, Sequences, FiniteSets, TLC

\* ---------------------------------------------------------------- bounds
MaxChunkLen == 4        \* longest text (in characters) of the chunking runs
MaxChunkCfg == 3        \* largest max_chunk_tokens of the chunking runs
MaxDocTokens == 2       \* longest PDF (in tokens) of a session, and the largest
                        \* max_chunk_tokens configured in one
MaxFiles == 2           \* most files held by the uploader at once
MaxDocs == 2            \* most chunk names a session accumulates
MaxScoreEntries == 1    \* most entries of a relevance JSON object

\* ------------------------------------------------------------- tokenizer
\* "a": a character that is one token; "m": a multi-byte character that is
\* two byte-level tokens; "r": U+FFFD, the replacement character.
Chars == {"a", "m", "r"}

RECURSIVE encode(_)
encode(text) ==
    IF text = <<>> THEN <<>>
    ELSE (CASE Head(text) = "a" -> <<"A">>
            [] Head(text) = "m" -> <<"M1", "M2">>
            [] OTHER            -> <<"R">>) \o encode(Tail(text))

RECURSIVE decode(_)
decode(toks) ==
    IF toks = <<>> THEN <<>>
    ELSE IF Head(toks) = "M1" /\ Len(toks) >= 2 /\ toks[2] = "M2"
         THEN <<"m">> \o decode(Tail(Tail(toks)))
    ELSE IF Head(toks) = "A" THEN <<"a">> \o decode(Tail(toks))
    ELSE <<"r">> \o decode(Tail(toks))

count_tokens(text) == Len(encode(text))

\* ------------------------------------------------------------------ dicts
Keys(d) == [n \in 1..Len(d) |-> d[n][1]]
KeySet(d) == {d[n][1] : n \in 1..Len(d)}
Get(d, k) == d[CHOOSE n \in 1..Len(d) : d[n][1] = k][2]

\* d[k] = v
Put(d, k, v) ==
    IF k \in KeySet(d)
    THEN [n \in 1..Len(d) |-> IF d[n][1] = k THEN <<k, v>> ELSE d[n]]
    ELSE Append(d, <<k, v>>)

\* `d = e` where the code has d.update(e)
Update_Replace(d, e) == e

\* d.update(e)
RECURSIVE Update(_, _)
Update(d, e) ==
    IF e = <<>> THEN d ELSE Update(Put(d, Head(e)[1], Head(e)[2]), Tail(e))

\* ---------------------------------------------------------------- chunking
\* SplitLoop with line 79 as `if current_length > max_tokens`
RECURSIVE SplitLoop_OffByOne(_, _, _, _)
SplitLoop_OffByOne(tokens, chunks, current_chunk, max_tokens) ==
    IF tokens = <<>>
    THEN IF current_chunk # <<>> THEN Append(chunks, current_chunk) ELSE chunks
    ELSE IF Len(current_chunk) > max_tokens
         THEN SplitLoop_OffByOne(Tail(tokens), Append(chunks, current_chunk),
                                 <<Head(tokens)>>, max_tokens)
         ELSE SplitLoop_OffByOne(Tail(tokens), chunks,
                                 Append(current_chunk, Head(tokens)), max_tokens)

\* SplitLoop with lines 80-83 followed by `continue`: the token that finds
\* the bucket full is not appended to the next one
RECURSIVE SplitLoop_DropsToken(_, _, _, _)
SplitLoop_DropsToken(tokens, chunks, current_chunk, max_tokens) ==
    IF tokens = <<>>
    THEN IF current_chunk # <<>> THEN Append(chunks, current_chunk) ELSE chunks
    ELSE IF Len(current_chunk) >= max_tokens
         THEN SplitLoop_DropsToken(Tail(tokens), Append(chunks, current_chunk),
                                   <<>>, max_tokens)
         ELSE SplitLoop_DropsToken(Tail(tokens), chunks,
                                   Append(current_chunk, Head(tokens)), max_tokens)

\* The token lists that the loop of split_text_into_chunks hands to
\* encoding.decode: state of the loop is (chunks, current_chunk); the
\* counter current_length is Len(current_chunk).
RECURSIVE SplitLoop(_, _, _, _)
SplitLoop(tokens, chunks, current_chunk, max_tokens) ==
    IF tokens = <<>>
    THEN IF current_chunk # <<>> THEN Append(chunks, current_chunk) ELSE chunks
    ELSE IF Len(current_chunk) >= max_tokens
         THEN SplitLoop(Tail(tokens), Append(chunks, current_chunk),
                        <<Head(tokens)>>, max_tokens)
         ELSE SplitLoop(Tail(tokens), chunks,
                        Append(current_chunk, Head(tokens)), max_tokens)

TokenChunks(text, max_tokens) == SplitLoop(encode(text), <<>>, <<>>, max_tokens)

split_text_into_chunks(text, max_tokens) ==
    LET tc == TokenChunks(text, max_tokens)
    IN  [n \in 1..Len(tc) |-> decode(tc[n])]

\* (chunks, chunk_tokens) of a PDF whose pages concatenate to full_text
extract_text_from_pdf(full_text, max_tokens) ==
    LET total_tokens == count_tokens(full_text)
    IN  IF total_tokens > max_tokens
        THEN LET cs == split_text_into_chunks(full_text, max_tokens)
             IN  [chunks |-> cs,
                  chunk_tokens |-> [n \in 1..Len(cs) |-> count_tokens(cs[n])]]
        ELSE [chunks |-> <<full_text>>, chunk_tokens |-> <<total_tokens>>]

\* chunk_name with line 135 as `if len(chunks) >= 1`
chunk_name_AlwaysPart(file_name, n, total) ==
    file_name \o " (Part " \o ToString(n) \o "/" \o ToString(total) \o ")"

chunk_name(file_name, n, total) ==
    IF total > 1
    THEN file_name \o " (Part " \o ToString(n) \o "/" \o ToString(total) \o ")"
    ELSE file_name

\* process_document_chunks with line 144 as `summaries[file_name] = summary`
process_document_chunks_SummaryPerFile(file_name, cs, cts, replies) ==
    LET N == Len(cs)
        name(n) == chunk_name(file_name, n, N)
    IN  [documents    |-> [n \in 1..N |-> <<name(n), cs[n]>>],
         summaries    |-> <<<<file_name, replies[N]>>>>,
         token_counts |-> [n \in 1..N |-> <<name(n), cts[n]>>]]

\* The three dicts process_document_chunks returns when every get_summary
\* call returns; replies[n] is the model's reply for chunk n.
process_document_chunks(file_name, cs, cts, replies) ==
    LET N == Len(cs)
        name(n) == chunk_name(file_name, n, N)
    IN  [documents    |-> [n \in 1..N |-> <<name(n), cs[n]>>],
         summaries    |-> [n \in 1..N |-> <<name(n), replies[n]>>],
         token_counts |-> [n \in 1..N |-> <<name(n), cts[n]>>]]

\* ------------------------------------------------------------ agent calls
\* Reply of the researcher agent: text that json.loads rejects, JSON that is
\* not an object, or a JSON object (an ordered dict name -> score).
Unparseable == [kind |-> "unparseable", obj |-> <<>>]
NotAnObject == [kind |-> "value", obj |-> <<>>]
JsonObject(o) == [kind |-> "object", obj |-> o]
NoResponse == [kind |-> "none", obj |-> <<>>]      \* no reply received

\* max(relevance_scores.items(), key=lambda x: x[1])[0]: the first key that
\* carries the greatest score
MaxKey(o) ==
    LET best == CHOOSE n \in 1..Len(o) :
                    /\ \A m \in 1..Len(o) : o[m][2] <= o[n][2]
                    /\ \A m \in 1..(n - 1) : o[m][2] < o[n][2]
    IN  o[best][1]

\* select_relevant_document with line 175 as
\* `return list(summaries.keys())[-1], {}`
select_relevant_document_BadFallback(response, sums) ==
    IF response.kind = "unparseable"
    THEN [raised |-> FALSE,
          relevant_doc |-> Keys(sums)[Len(sums)],
          relevance_scores |-> <<>>]
    ELSE IF response.kind = "value" \/ response.obj = <<>>
    THEN [raised |-> TRUE, relevant_doc |-> "", relevance_scores |-> <<>>]
    ELSE [raised |-> FALSE,
          relevant_doc |-> MaxKey(response.obj),
          relevance_scores |-> response.obj]

\* Result of select_relevant_document once the model call has returned
\* `response`.  Only json.JSONDecodeError is caught; .items() of a non-object
\* and max() of an empty object raise.
select_relevant_document(response, sums) ==
    IF response.kind = "unparseable"
    THEN [raised |-> FALSE,
          relevant_doc |-> Keys(sums)[1],
          relevance_scores |-> [n \in 1..Len(sums) |-> <<sums[n][1], 0>>]]
    ELSE IF response.kind = "value" \/ response.obj = <<>>
    THEN [raised |-> TRUE, relevant_doc |-> "", relevance_scores |-> <<>>]
    ELSE [raised |-> FALSE,
          relevant_doc |-> MaxKey(response.obj),
          relevance_scores |-> response.obj]

SummaryCall(text) == [agent |-> "document_analysis_agent", text |-> text]
RelevanceCall(q, sums) == [agent |-> "researcher_agent", question |-> q, summaries |-> sums]
AnswerCall(q, text) == [agent |-> "reply_agent", question |-> q, text |-> text]

\* ---------------------------------------------------------------- session
VARIABLES
    documents, summaries, token_counts,                \* st.session_state
    max_chunk_tokens,       \* document_processing.max_chunk_tokens of the config
    pdf,                    \* text that PyPDF2 extracts from the file of each name
    uploaded_files,         \* file names held by the pdf_uploader widget
    pc,                     \* position of the running script, "idle" between reruns
    ev,                     \* the widget whose change triggered this rerun
    i,                      \* index of `file` in the upload loop
    chunks, chunk_tokens,   \* script globals of the upload loop (line 235)
    docs, sums, tokens,     \* script globals of the upload loop (line 247)
    question,               \* the question the question flow runs with (line 278)
    response,               \* reply of the researcher agent (line 158)
    relevant_doc, relevance_scores,            \* script globals of line 293
    calls,                  \* chat completion calls issued by the last step, in order
    status                  \* what the last step of the upload loop did with its file

maps == <<documents, summaries, token_counts>>
upload_locals == <<chunks, chunk_tokens, docs, sums, tokens>>
question_locals == <<question, response, relevant_doc, relevance_scores>>
vars == <<documents, summaries, token_counts, max_chunk_tokens, pdf, uploaded_files,
          pc, ev, i, chunks, chunk_tokens, docs, sums, tokens, question, response,
          relevant_doc, relevance_scores, calls, status>>

\* st.session_state.show_answer: lines 286-289 set it in every rerun before
\* line 291 reads it, to whether the Submit button triggered the rerun.
show_answer == (ev = "button")

\* A PDF of n tokens: "m" characters, after a leading "a" when n is odd.
DocText(n) == [k \in 1..((n + 1) \div 2) |-> IF k = 1 /\ n % 2 = 1 THEN "a" ELSE "m"]
DocName(n) == "doc" \o ToString(n) \o ".pdf"
Names == {DocName(n) : n \in 1..MaxDocTokens}
Ghost == "ghost.pdf"                \* a name the model invents
ModelSummaries == {"s1"}            \* replies of the document analysis agent
EditTexts == {"e1"}                 \* texts a user types into a summary text_area
Questions == {"", "q1"}             \* content of the question text_input
Scores == {10, 90}                  \* scores the researcher agent reports
\* Widgets whose change starts a rerun.  A rerun that changes nothing (the
\* question text was edited, say) is a rerun that ends in RestUnchanged.
Events == {"files", "button", "edit", "config"}

TextsUpTo(n, alphabet) == UNION {[1..k -> alphabet] : k \in 0..n}

NoUploadLocals ==
    chunks = <<>> /\ chunk_tokens = <<>> /\ docs = <<>> /\ sums = <<>> /\ tokens = <<>>
NoQuestionLocals ==
    question = "" /\ response = NoResponse /\ relevant_doc = "" /\ relevance_scores = <<>>
ForgetUploadLocals ==
    chunks' = <<>> /\ chunk_tokens' = <<>> /\ docs' = <<>> /\ sums' = <<>> /\ tokens' = <<>>
ForgetQuestionLocals ==
    question' = "" /\ response' = NoResponse /\ relevant_doc' = "" /\ relevance_scores' = <<>>

\* Script globals do not survive a rerun.
NoLocals ==
    /\ ev = "none" /\ i = 0 /\ calls = <<>> /\ status = "none"
    /\ NoUploadLocals /\ NoQuestionLocals

\* The script run is over.
EndRun ==
    /\ pc' = "idle"
    /\ ev' = "none" /\ i' = 0 /\ calls' = <<>> /\ status' = "none"
    /\ ForgetUploadLocals /\ ForgetQuestionLocals

Init ==
    /\ documents = <<>> /\ summaries = <<>> /\ token_counts = <<>>
    /\ max_chunk_tokens \in 1..MaxDocTokens
    /\ pdf = [name \in Names |->
                DocText(CHOOSE n \in 1..MaxDocTokens : DocName(n) = name)]
    /\ uploaded_files = <<>>
    /\ pc = "idle"
    /\ NoLocals

RemoveAt(s, n) == [k \in 1..(Len(s) - 1) |-> IF k < n THEN s[k] ELSE s[k + 1]]

NamesOf(files) == {files[n] : n \in 1..Len(files)}

\* The user changes one widget; Streamlit reruns the script from the top.
\* The files held by the uploader have distinct names.
Interact ==
    /\ pc = "idle"
    /\ \E e \in Events :
        /\ ev' = e
        /\ IF e = "files"
           THEN \/ \E f \in Names \ NamesOf(uploaded_files) :
                        /\ Len(uploaded_files) < MaxFiles
                        /\ uploaded_files' = Append(uploaded_files, f)
                \/ \E n \in 1..Len(uploaded_files) :
                        uploaded_files' = RemoveAt(uploaded_files, n)
           ELSE UNCHANGED uploaded_files
        /\ e = "edit" => summaries # <<>>
    /\ pc' = "upload"
    /\ i' = 1
    /\ UNCHANGED <<maps, max_chunk_tokens, pdf, upload_locals, question_locals,
                   calls, status>>

\* ------------------------------------------------------------ upload loop
file == uploaded_files[i]
InLoop == pc = "upload" /\ i <= Len(uploaded_files)
Visit(outcome) ==
    /\ status' = outcome
    /\ i' = i + 1
    /\ pc' = "upload"
    /\ UNCHANGED <<max_chunk_tokens, pdf, uploaded_files, ev, question_locals>>

\* line 229: the file name is already a key of documents
SkipFile ==
    /\ InLoop
    /\ file \in KeySet(documents)
    /\ Visit("skipped")
    /\ calls' = <<>>
    /\ ForgetUploadLocals
    /\ UNCHANGED maps

\* line 235 raises: PyPDF2 cannot read the file.  Any upload may be an
\* unreadable file, whatever its name.
ExtractFails ==
    /\ InLoop
    /\ file \notin KeySet(documents)
    /\ Visit("failed")
    /\ calls' = <<>>
    /\ ForgetUploadLocals
    /\ UNCHANGED maps

\* SummaryFails with process_document_chunks writing each chunk to
\* st.session_state as soon as it is summarised
SummaryFails_StoresPartial ==
    /\ InLoop
    /\ file \notin KeySet(documents)
    /\ LET ex == extract_text_from_pdf(pdf[file], max_chunk_tokens)
       IN  /\ chunks' = ex.chunks
           /\ chunk_tokens' = ex.chunk_tokens
           /\ \E k \in 1..Len(ex.chunks) :
                LET out == process_document_chunks(file, ex.chunks, ex.chunk_tokens,
                                                   [n \in 1..Len(ex.chunks) |-> "s1"])
                IN  /\ calls' = [n \in 1..k |-> SummaryCall(ex.chunks[n])]
                    /\ documents' = Update(documents, SubSeq(out.documents, 1, k - 1))
                    /\ summaries' = Update(summaries, SubSeq(out.summaries, 1, k - 1))
                    /\ token_counts' = Update(token_counts, SubSeq(out.token_counts, 1, k - 1))
    /\ docs' = <<>> /\ sums' = <<>> /\ tokens' = <<>>
    /\ Visit("failed")

\* line 247 raises: the get_summary call for chunk k fails
SummaryFails ==
    /\ InLoop
    /\ file \notin KeySet(documents)
    /\ LET ex == extract_text_from_pdf(pdf[file], max_chunk_tokens)
       IN  /\ chunks' = ex.chunks
           /\ chunk_tokens' = ex.chunk_tokens
           /\ \E k \in 1..Len(ex.chunks) :
                calls' = [n \in 1..k |-> SummaryCall(ex.chunks[n])]
    /\ docs' = <<>> /\ sums' = <<>> /\ tokens' = <<>>
    /\ Visit("failed")
    /\ UNCHANGED maps

\* lines 235-251 without an exception.  The session is kept to MaxDocs chunk
\* names: a file that would exceed them is one whose summary calls fail.
StoreFile ==
    /\ InLoop
    /\ file \notin KeySet(documents)
    /\ LET ex == extract_text_from_pdf(pdf[file], max_chunk_tokens)
       IN  /\ chunks' = ex.chunks
           /\ chunk_tokens' = ex.chunk_tokens
           /\ calls' = [n \in 1..Len(ex.chunks) |-> SummaryCall(ex.chunks[n])]
           /\ \E replies \in [1..Len(ex.chunks) -> ModelSummaries] :
                LET out == process_document_chunks(file, ex.chunks, ex.chunk_tokens, replies)
                IN  /\ Cardinality(KeySet(documents) \cup KeySet(out.documents)) <= MaxDocs
                    /\ docs' = out.documents
                    /\ sums' = out.summaries
                    /\ tokens' = out.token_counts
                    /\ documents' = Update(documents, out.documents)
                    /\ summaries' = Update(summaries, out.summaries)
                    /\ token_counts' = Update(token_counts, out.token_counts)
    /\ Visit("stored")

\* the loop has visited every file (or `if uploaded_files:` is false)
LoopDone == pc = "upload" /\ i > Len(uploaded_files)

\* ---------------------------------------------------------- question flow
\* JSON objects the researcher agent may answer with: up to MaxScoreEntries
\* entries, keyed by stored chunk names or by a name it made up.
Objects ==
    {o \in TextsUpTo(MaxScoreEntries, (KeySet(summaries) \cup {Ghost}) \X Scores) :
        \A m, n \in 1..Len(o) : m # n => o[m][1] # o[n][1]}
Responses == {Unparseable, NotAnObject} \cup {JsonObject(o) : o \in Objects}

\* line 291
Asked(q) == show_answer /\ q # "" /\ documents # <<>>

\* lines 286-291 with the guard of line 291 false
NoQuestion ==
    /\ LoopDone
    /\ \E q \in Questions : ~Asked(q)
    /\ pc' = "panel"
    /\ calls' = <<>>
    /\ status' = "none"
    /\ ForgetUploadLocals
    /\ UNCHANGED <<maps, max_chunk_tokens, pdf, uploaded_files, ev, i, question_locals>>

\* lines 286-293: the chat completion call of select_relevant_document raises
RelevanceCallFails ==
    /\ LoopDone
    /\ \E q \in Questions :
        /\ Asked(q)
        /\ question' = q
        /\ calls' = <<RelevanceCall(q, summaries)>>
    /\ pc' = "aborted"
    /\ status' = "none"
    /\ ForgetUploadLocals
    /\ UNCHANGED <<maps, max_chunk_tokens, pdf, uploaded_files, ev, i, response,
                   relevant_doc, relevance_scores>>

\* lines 286-293: the call returns and select_relevant_document raises
SelectRaises ==
    /\ LoopDone
    /\ \E q \in Questions, reply \in Responses :
        /\ Asked(q)
        /\ select_relevant_document(reply, summaries).raised
        /\ question' = q
        /\ calls' = <<RelevanceCall(q, summaries)>>
        /\ response' = reply
    /\ pc' = "aborted"
    /\ status' = "none"
    /\ ForgetUploadLocals
    /\ UNCHANGED <<maps, max_chunk_tokens, pdf, uploaded_files, ev, i, relevant_doc,
                   relevance_scores>>

\* lines 286-307: select_relevant_document returns
SelectRelevant ==
    /\ LoopDone
    /\ \E q \in Questions, reply \in Responses :
        LET sel == select_relevant_document(reply, summaries)
        IN  /\ Asked(q)
            /\ ~sel.raised
            /\ question' = q
            /\ calls' = <<RelevanceCall(q, summaries)>>
            /\ response' = reply
            /\ relevant_doc' = sel.relevant_doc
            /\ relevance_scores' = sel.relevance_scores
    /\ pc' = "answer"
    /\ status' = "none"
    /\ ForgetUploadLocals
    /\ UNCHANGED <<maps, max_chunk_tokens, pdf, uploaded_files, ev, i>>

\* line 310: documents[relevant_doc] raises KeyError
AnswerKeyError ==
    /\ pc = "answer"
    /\ relevant_doc \notin KeySet(documents)
    /\ pc' = "aborted"
    /\ calls' = <<>>
    /\ ForgetQuestionLocals
    /\ UNCHANGED <<maps, max_chunk_tokens, pdf, uploaded_files, ev, i, upload_locals,
                   status>>

\* line 310: the chat completion call of get_answer raises
AnswerCallFails ==
    /\ pc = "answer"
    /\ relevant_doc \in KeySet(documents)
    /\ calls' = <<AnswerCall(question, Get(documents, relevant_doc))>>
    /\ pc' = "aborted"
    /\ ForgetQuestionLocals
    /\ UNCHANGED <<maps, max_chunk_tokens, pdf, uploaded_files, ev, i, upload_locals,
                   status>>

\* GetAnswer that also keeps the selection in session state, as the summary
\* of the selected document
GetAnswer_StoresSelection ==
    /\ pc = "answer"
    /\ relevant_doc \in KeySet(documents)
    /\ calls' = <<AnswerCall(question, Get(documents, relevant_doc))>>
    /\ summaries' = Put(summaries, relevant_doc, question)
    /\ pc' = "panel"
    /\ ForgetQuestionLocals
    /\ UNCHANGED <<documents, token_counts, max_chunk_tokens, pdf, uploaded_files, ev,
                   i, upload_locals, status>>

\* lines 310-325
GetAnswer ==
    /\ pc = "answer"
    /\ relevant_doc \in KeySet(documents)
    /\ relevant_doc \in KeySet(token_counts)
    /\ relevant_doc \in KeySet(relevance_scores)
    /\ calls' = <<AnswerCall(question, Get(documents, relevant_doc))>>
    /\ pc' = "panel"
    /\ ForgetQuestionLocals
    /\ UNCHANGED <<maps, max_chunk_tokens, pdf, uploaded_files, ev, i, upload_locals,
                   status>>

\* An uncaught exception: Streamlit shows it and the script run is over.
ShowException ==
    /\ pc = "aborted"
    /\ EndRun
    /\ UNCHANGED <<maps, max_chunk_tokens, pdf, uploaded_files>>

\* ------------------------------------- summary panel, configuration tab
\* Lines 327-555, the rest of the script: the summary panel, the status box
\* and the configuration tab.  The script run ends with them.

\* EditSummary that appends the edited text to the stored summary
EditSummary_Merge ==
    /\ pc = "panel"
    /\ ev = "edit"
    /\ \E filename \in KeySet(summaries), edited_summary \in EditTexts :
        /\ edited_summary # Get(summaries, filename)
        /\ summaries' = Put(summaries, filename,
                            Get(summaries, filename) \o edited_summary)
    /\ EndRun
    /\ UNCHANGED <<documents, token_counts, max_chunk_tokens, pdf, uploaded_files>>

\* lines 334-347 with one text_area holding a text that differs from the
\* stored summary
EditSummary ==
    /\ pc = "panel"
    /\ ev = "edit"
    /\ \E filename \in KeySet(summaries), edited_summary \in EditTexts :
        /\ edited_summary # Get(summaries, filename)
        /\ summaries' = Put(summaries, filename, edited_summary)
    /\ EndRun
    /\ UNCHANGED <<documents, token_counts, max_chunk_tokens, pdf, uploaded_files>>

\* lines 376-385 with a changed number_input
ConfigEdit ==
    /\ pc = "panel"
    /\ ev = "config"
    /\ \E new_max_tokens \in 1..MaxDocTokens :
        /\ new_max_tokens # max_chunk_tokens
        /\ max_chunk_tokens' = new_max_tokens
    /\ EndRun
    /\ UNCHANGED <<maps, pdf, uploaded_files>>

\* every text_area equals its stored summary and every configuration widget
\* equals the stored configuration
RestUnchanged ==
    /\ pc = "panel"
    /\ EndRun
    /\ UNCHANGED <<maps, max_chunk_tokens, pdf, uploaded_files>>

Next ==
    \/ Interact
    \/ SkipFile \/ ExtractFails \/ SummaryFails \/ StoreFile
    \/ NoQuestion \/ RelevanceCallFails \/ SelectRaises \/ SelectRelevant
    \/ AnswerKeyError \/ AnswerCallFails \/ GetAnswer \/ ShowException
    \/ EditSummary \/ ConfigEdit \/ RestUnchanged

Spec == Init /\ [][Next]_vars

\* ------------------------------------------------- one file, step by step
\* The first pass of the upload loop over one file in a fresh session, with
\* line 235 (extraction) and lines 247-251 (summaries and storing) as separate
\* steps and with every text of up to MaxChunkLen characters as the PDF.
ChunkTexts == TextsUpTo(MaxChunkLen, Chars)

ChunkInit ==
    /\ documents = <<>> /\ summaries = <<>> /\ token_counts = <<>>
    /\ max_chunk_tokens \in 1..MaxChunkCfg
    /\ uploaded_files = <<"x.pdf">>
    /\ pdf \in [{"x.pdf"} -> ChunkTexts]
    /\ pc = "extract"
    /\ ev = "files" /\ i = 1 /\ calls = <<>> /\ status = "none"
    /\ NoUploadLocals /\ NoQuestionLocals

\* line 235
ChunkExtract ==
    /\ pc = "extract"
    /\ LET ex == extract_text_from_pdf(pdf[file], max_chunk_tokens)
       IN  /\ chunks' = ex.chunks
           /\ chunk_tokens' = ex.chunk_tokens
    /\ pc' = "process"
    /\ UNCHANGED <<maps, max_chunk_tokens, pdf, uploaded_files, ev, i, docs, sums,
                   tokens, question_locals, calls, status>>

\* lines 247-251
ChunkProcess ==
    /\ pc = "process"
    /\ calls' = [n \in 1..Len(chunks) |-> SummaryCall(chunks[n])]
    /\ \E replies \in [1..Len(chunks) -> ModelSummaries] :
        LET out == process_document_chunks(file, chunks, chunk_tokens, replies)
        IN  /\ docs' = out.documents
            /\ sums' = out.summaries
            /\ tokens' = out.token_counts
            /\ documents' = Update(documents, out.documents)
            /\ summaries' = Update(summaries, out.summaries)
            /\ token_counts' = Update(token_counts, out.token_counts)
    /\ status' = "stored"
    /\ pc' = "stored"
    /\ UNCHANGED <<max_chunk_tokens, pdf, uploaded_files, ev, i, chunks, chunk_tokens,
                   question_locals>>

ChunkNext == ChunkExtract \/ ChunkProcess

ChunkSpec == ChunkInit /\ [][ChunkNext]_vars

\* ------------------------------------------- split_text_into_chunks alone
\* split_text_into_chunks (lines 68-92) called on every text of up to
\* MaxChunkLen characters with every max_tokens of 1..MaxChunkCfg, whether or
\* not the text is over the threshold.
SplitInit ==
    /\ documents = <<>> /\ summaries = <<>> /\ token_counts = <<>>
    /\ max_chunk_tokens \in 1..MaxChunkCfg
    /\ uploaded_files = <<"x.pdf">>
    /\ pdf \in [{"x.pdf"} -> ChunkTexts]
    /\ pc = "split"
    /\ ev = "files" /\ i = 1 /\ calls = <<>> /\ status = "none"
    /\ NoUploadLocals /\ NoQuestionLocals

SplitText ==
    /\ pc = "split"
    /\ chunks' = split_text_into_chunks(pdf[file], max_chunk_tokens)
    /\ pc' = "returned"
    /\ UNCHANGED <<maps, max_chunk_tokens, pdf, uploaded_files, ev, i, chunk_tokens,
                   docs, sums, tokens, question_locals, calls, status>>

SplitNext == SplitText

SplitSpec == SplitInit /\ [][SplitNext]_vars

\* ------------------------------------------------------------------ claims
MapsUnchanged == UNCHANGED maps
RelevanceCalls == {n \in 1..Len(calls) : calls[n].agent = "researcher_agent"}
AnswerCalls == {n \in 1..Len(calls) : calls[n].agent = "reply_agent"}
\* the step of the upload loop failed on / stored its file
FailedStep == InLoop /\ status' = "failed"
StoredStep == InLoop /\ status' = "stored"
\* the chunks of the file are in the session, under its name or as parts
Stored(name) ==
    \/ name \in KeySet(documents)
    \/ \E n \in 2..MaxDocTokens : chunk_name(name, 1, n) \in KeySet(documents)

\* C1: documents, summaries and token_counts have the same keys in every
\* reachable state.
C1_SameKeys ==
    /\ KeySet(documents) = KeySet(summaries)
    /\ KeySet(documents) = KeySet(token_counts)

\* a split file is stored and the summary of its second part was edited
C1_Witness ==
    /\ pc = "idle"
    /\ Keys(documents) = <<"doc2.pdf (Part 1/2)", "doc2.pdf (Part 2/2)">>
    /\ summaries[1][2] \in ModelSummaries
    /\ summaries[2][2] \in EditTexts

\* C2 (as stated): when the upload loop comes to a file whose chunks are
\* stored, under its name or as parts, it skips the file: no extraction, no
\* summary call, no write to documents, summaries or token_counts.
C2_NoReprocessing ==
    [][(InLoop /\ Stored(file)) =>
        /\ status' = "skipped"
        /\ calls' = <<>>
        /\ chunks' = <<>>
        /\ MapsUnchanged]_vars

\* C3: a step of the upload loop that fails on its file leaves documents,
\* summaries and token_counts as they were and goes on to the next file;
\* the script gets past the loop only when every file has had its step.
C3_FailureIsolated ==
    /\ [][FailedStep => (MapsUnchanged /\ pc' = "upload" /\ i' = i + 1)]_vars
    /\ [](pc \in {"answer", "panel", "aborted"} => i = Len(uploaded_files) + 1)

\* the second summary call of a split file failed, its first chunk is not
\* stored, and a second file is still to be processed
C3_Witness ==
    /\ pc = "upload"
    /\ status = "failed"
    /\ Len(chunks) = 2
    /\ Len(calls) = 2
    /\ documents = <<>>
    /\ i = 2
    /\ Len(uploaded_files) = 2

\* C4: when the reply of the researcher agent is not JSON, the selected
\* document is the first key of summaries, the score map has exactly the
\* keys of summaries, every score is 0, and the one relevance call of the
\* question is not followed by another.
C4_Fallback ==
    /\ []((pc = "answer" /\ response = Unparseable) =>
            /\ relevant_doc = summaries[1][1]
            /\ KeySet(relevance_scores) = KeySet(summaries)
            /\ Len(relevance_scores) = Len(summaries)
            /\ \A n \in 1..Len(relevance_scores) : relevance_scores[n][2] = 0
            /\ calls = <<RelevanceCall(question, summaries)>>)
    /\ [][pc = "answer" => RelevanceCalls' = {}]_vars

\* the fallback chose between two documents
C4_Witness ==
    /\ pc = "answer"
    /\ response = Unparseable
    /\ Len(summaries) = 2
    /\ relevant_doc = "doc2.pdf"

\* C5: a document of more than max_chunk_tokens tokens is cut into at least
\* two chunks, each the decoding of a slice of at most max_chunk_tokens
\* consecutive tokens of the document's token sequence.
Kth(C, k) == CHOOSE c \in C : Cardinality({d \in C : d <= c}) = k
\* the k-th of the slices that the cut points C make of toks
Slice(toks, C, k) ==
    SubSeq(toks,
           IF k = 1 THEN 1 ELSE Kth(C, k - 1) + 1,
           IF k = Cardinality(C) + 1 THEN Len(toks) ELSE Kth(C, k))

C5_ChunksBounded ==
    (pc # "extract" /\ count_tokens(pdf[file]) > max_chunk_tokens) =>
        LET toks == encode(pdf[file])
        IN  /\ Len(chunks) >= 2
            /\ \E C \in SUBSET (1..(Len(toks) - 1)) :
                /\ Cardinality(C) = Len(chunks) - 1
                /\ \A k \in 1..Len(chunks) :
                    /\ Len(Slice(toks, C, k)) <= max_chunk_tokens
                    /\ chunks[k] = decode(Slice(toks, C, k))

\* three chunks, one boundary inside a two-token character
C5_Witness ==
    /\ pc = "stored"
    /\ pdf[file] = <<"a", "m", "a", "a">>
    /\ max_chunk_tokens = 2
    /\ chunks = <<<<"a", "r">>, <<"r", "a">>, <<"a">>>>

\* C6: a document of at most max_chunk_tokens tokens yields one chunk, the
\* full text with the full token count, stored under the file name itself.
C6_SingleChunk ==
    LET n == count_tokens(pdf[file])
    IN  /\ (pc # "extract" /\ n <= max_chunk_tokens) =>
                /\ chunks = <<pdf[file]>>
                /\ chunk_tokens = <<n>>
        /\ (pc = "stored" /\ n <= max_chunk_tokens) =>
                /\ documents = <<<<file, pdf[file]>>>>
                /\ token_counts = <<<<file, n>>>>
                /\ Keys(summaries) = <<file>>

\* a document of exactly max_chunk_tokens tokens has been stored
C6_Witness ==
    /\ pc = "stored"
    /\ max_chunk_tokens = 3
    /\ pdf[file] = <<"m", "r">>
    /\ KeySet(documents) = {"x.pdf"}

\* C7 (as stated): storing a file of n chunks issues n summary calls, chunk
\* by chunk; a submitted question issues one relevance call over the current
\* summaries; once that call has returned, the next step issues one answer
\* call on the stored text of the document chosen; no answer call is issued
\* at any other point.
C7_DataFlow ==
    /\ [][StoredStep =>
            calls' = [n \in 1..Len(chunks') |-> SummaryCall(chunks'[n])]]_vars
    /\ [][(LoopDone /\ calls' # <<>>) =>
            calls' = <<RelevanceCall(question', summaries)>>]_vars
    /\ [][(LoopDone /\ response' # NoResponse) => pc' = "answer"]_vars
    /\ [][pc = "answer" =>
            /\ relevant_doc \in KeySet(documents)
            /\ calls' = <<AnswerCall(question, Get(documents, relevant_doc))>>]_vars
    /\ [][AnswerCalls' # {} => (pc = "answer" /\ response # NoResponse)]_vars

C10_NeverDeleted ==
    [][/\ \A k \in KeySet(documents) :
            k \in KeySet(documents') /\ Get(documents', k) = Get(documents, k)
       /\ \A k \in KeySet(token_counts) :
            k \in KeySet(token_counts') /\ Get(token_counts', k) = Get(token_counts, k)]_vars

\* the parts of a file are still there after the file left the uploader and
\* the configuration changed
C10_Witness ==
    /\ pc = "idle"
    /\ uploaded_files = <<>>
    /\ max_chunk_tokens = 2
    /\ KeySet(documents) = {"doc2.pdf (Part 1/2)", "doc2.pdf (Part 2/2)"}

\* C11: the token buckets that split_text_into_chunks decodes into its
\* chunks are a partition of the token sequence of the text: concatenated
\* in order they are the token sequence, none is empty, and each but the
\* last holds exactly max_tokens tokens.
RECURSIVE Concat(_)
Concat(seqs) == IF seqs = <<>> THEN <<>> ELSE Head(seqs) \o Concat(Tail(seqs))

C11_Partition ==
    LET tc == TokenChunks(pdf[file], max_chunk_tokens)
    IN  /\ Concat(tc) = encode(pdf[file])
        /\ \A n \in 1..Len(tc) : tc[n] # <<>>
        /\ \A n \in 1..(Len(tc) - 1) : Len(tc[n]) = max_chunk_tokens
        /\ pc = "returned" => chunks = [n \in 1..Len(tc) |-> decode(tc[n])]

\* five tokens in buckets of two: two full buckets and a last one of one
\* token, with both boundaries of the last two inside a two-token character
C11_Witness ==
    /\ pc = "returned"
    /\ pdf[file] = <<"m", "a", "m">>
    /\ max_chunk_tokens = 2
    /\ TokenChunks(pdf[file], max_chunk_tokens) =
            <<<<"M1", "M2">>, <<"A", "M1">>, <<"M2">>>>
    /\ chunks = <<<<"m">>, <<"a", "r">>, <<"r">>>>

\* C12 (as stated): when the script comes to the answer step, the name that
\* select_relevant_document returned is a key of documents, of token_counts
\* and of the score map returned with it, so that the lookups of lines 310,
\* 315 and 316 succeed.
C12_SelectionStored ==
    pc = "answer" =>
        /\ relevant_doc \in KeySet(documents)
        /\ relevant_doc \in KeySet(token_counts)
        /\ relevant_doc \in KeySet(relevance_scores)

====
